---------------------------- MODULE Spec2Model ----------------------------
(***************************************************************************)
(* Model of the Minervini SEPA screener: its core,                         *)
(* src/src/lib/screener.ts, and the route that runs it over the universe,  *)
(* src/src/app/api/screener/route.ts.                                      *)
(*                                                                         *)
(* Numbers.  The source computes in IEEE doubles.  Here prices are whole   *)
(* dollars and volumes are whole units of VolUnit shares, so every sum the *)
(* source forms is an exact integer, and an average is kept as the         *)
(* rational [n |-> sum, d |-> period].  Comparisons of averages are done   *)
(* by cross-multiplication; on integer inputs of this size two distinct    *)
(* rationals differ by far more than one ulp, so the double comparison     *)
(* gives the same answer.  null is the model value NULL.                   *)
(***************************************************************************)
EXTENDS Integers, Sequences, FiniteSets, TLC

VARIABLES results, entry, sorted, op, data, benchmarkData, arg, ret, handler, trace

vars == <<results, entry, sorted, op, data, benchmarkData, arg, ret, handler, trace>>

(***************************************************************************)
(* null where the source returns number | null or ScreenerResult | null,   *)
(* and null where checkBreakout returns string | null.                     *)
(***************************************************************************)
NULL == [null |-> TRUE]

NoBreakout == "null"

(***************************************************************************)
(* The outcome of a call that throws instead of returning.                 *)
(***************************************************************************)
Thrown == [thrown |-> TRUE]

(***************************************************************************)
(* Bounds of the model.                                                    *)
(***************************************************************************)
MaxBatch == 3
MaxRaw == 1
MaxSetups == 1
MaxLen == 300
MaxUniverse == 3
LargeBatch == 100

(***************************************************************************)
(* Math.round(num/den) for den > 0: the nearest integer, halves upward.    *)
(***************************************************************************)
MathRound(num, den) == (2 * num + den) \div (2 * den)

MathMax(a, b) == IF a >= b THEN a ELSE b

MathMin(a, b) == IF a <= b THEN a ELSE b

(***************************************************************************)
(* Thresholds of the SEPA criteria.  MIN_ADV_DOLLARS is in dollars; one    *)
(* unit of volume in the model is VolUnit shares.                          *)
(***************************************************************************)
MIN_PRICE == 10
MIN_ADV_DOLLARS == 20000000
MA200_RISE_DAYS == 22
BO_PIVOT_BARS == 10

VolUnit == 10 * 100

(***************************************************************************)
(* A number of the source that is an average: the rational n / d, d > 0.   *)
(***************************************************************************)
Rat(n, d) == [n |-> n, d |-> d]

RatLt(a, b) == a.n * b.d < b.n * a.d

(***************************************************************************)
(* !x for x : number | null.  Zero is falsy in the source's language, as   *)
(* null is.                                                                *)
(***************************************************************************)
Falsy(x) == x = NULL \/ x.n = 0

(***************************************************************************)
(* Sums and extremes over the bars lo..hi (1-based, inclusive).  A sum is  *)
(* split at the middle of its range to keep the recursion shallow.         *)
(***************************************************************************)
RECURSIVE SumClose(_, _, _)
SumClose(d, lo, hi) ==
    IF lo > hi THEN 0
    ELSE IF lo = hi THEN d[lo].close
    ELSE SumClose(d, lo, (lo + hi) \div 2) + SumClose(d, (lo + hi) \div 2 + 1, hi)

RECURSIVE SumVolume(_, _, _)
SumVolume(d, lo, hi) ==
    IF lo > hi THEN 0
    ELSE IF lo = hi THEN d[lo].volume
    ELSE SumVolume(d, lo, (lo + hi) \div 2) + SumVolume(d, (lo + hi) \div 2 + 1, hi)

SetMax(S) == CHOOSE m \in S : \A x \in S : x <= m

SetMin(S) == CHOOSE m \in S : \A x \in S : m <= x

MaxHigh(d, lo, hi) == SetMax({ d[i].high : i \in lo..hi })

MinLow(d, lo, hi) == SetMin({ d[i].low : i \in lo..hi })

Abs(x) == IF x < 0 THEN -x ELSE x

(***************************************************************************)
(* data.slice(-k): the first index (1-based) of the last k bars, or of the *)
(* whole series when it has fewer.                                         *)
(***************************************************************************)
LastFrom(d, k) == MathMax(1, Len(d) - k + 1)

sma(d, period) ==
    IF Len(d) < period THEN NULL
    ELSE Rat(SumClose(d, Len(d) - period + 1, Len(d)), period)

(***************************************************************************)
(* smaAt takes the source's 0-based index.                                 *)
(***************************************************************************)
smaAtOverAvailable(d, period, index) ==
    IF index < 0 \/ index >= Len(d) THEN NULL
    ELSE Rat(SumClose(d, MathMax(1, index - period + 2), index + 1),
             MathMin(period, index + 1))

smaAt(d, period, index) ==
    IF index + 1 < period \/ index >= Len(d) THEN NULL
    ELSE Rat(SumClose(d, index - period + 2, index + 1), period)

(***************************************************************************)
(* True range of bar i (1-based, i >= 2) against the previous close.       *)
(***************************************************************************)
TrueRangeHighLow(d, i) == d[i].high - d[i].low

TrueRange(d, i) ==
    MathMax(d[i].high - d[i].low,
            MathMax(Abs(d[i].high - d[i - 1].close), Abs(d[i].low - d[i - 1].close)))

RECURSIVE SumTr(_, _, _)
SumTr(d, lo, hi) ==
    IF lo > hi THEN 0
    ELSE IF lo = hi THEN TrueRange(d, lo)
    ELSE SumTr(d, lo, (lo + hi) \div 2) + SumTr(d, (lo + hi) \div 2 + 1, hi)

calcAtrOverAllBars(d, period) ==
    IF Len(d) < period + 1 THEN NULL
    ELSE Rat(SumTr(d, 2, Len(d)), Len(d) - 1)

calcAtrBelowPeriod(d, period) ==
    IF Len(d) < period THEN NULL
    ELSE Rat(SumTr(d, MathMax(2, Len(d) - period + 1), Len(d)), period)

calcAtr(d, period) ==
    IF Len(d) < period + 1 THEN NULL
    ELSE Rat(SumTr(d, Len(d) - period + 1, Len(d)), period)

avgVolume(d, period) ==
    IF Len(d) < period THEN NULL
    ELSE Rat(SumVolume(d, Len(d) - period + 1, Len(d)), period)

(***************************************************************************)
(* The last k bars of d as a series of their own (data.slice(-k)).         *)
(***************************************************************************)
SliceLast(d, k) == SubSeq(d, LastFrom(d, k), Len(d))

(***************************************************************************)
(* calculateRawRs.  Dates are integers.  benchMap keeps, for a date, the   *)
(* last benchmark bar carrying it.  A return (end - start) / start is kept *)
(* in fixed point with RetScale steps per unit, and the weighted score     *)
(* 0.4 q1 + 0.2 q2 + 0.2 q3 + 0.2 q4 as 2 q1 + q2 + q3 + q4, that is in    *)
(* units of 1 / (5 RetScale).                                              *)
(***************************************************************************)
RetScale == 1000 * 1000

BenchAt(bench, date) ==
    LET J == { j \in 1..Len(bench) : bench[j].date = date }
    IN  IF J = {} THEN NULL ELSE bench[SetMax(J)]

Aligned(stockData, bench) ==
    LET dates == { bench[j].date : j \in 1..Len(bench) }
        InBench(bar) == bar.date \in dates
        stock == SelectSeq(stockData, InBench)
    IN  [i \in 1..Len(stock) |->
            [stock |-> stock[i], bench |-> BenchAt(bench, stock[i].date)]]

Ret(first, last) == ((last - first) * RetScale) \div first

(***************************************************************************)
(* calcReturn with the source's 0-based start (inclusive), end (exclusive).*)
(***************************************************************************)
calcReturnFromPriorSession(al, start, end) ==
    IF start >= end \/ start < 0 THEN [stockRet |-> 0, benchRet |-> 0]
    ELSE [stockRet |-> Ret(al[MathMax(1, start)].stock.close, al[end].stock.close),
          benchRet |-> Ret(al[MathMax(1, start)].bench.close, al[end].bench.close)]

calcReturn(al, start, end) ==
    IF start >= end \/ start < 0 THEN [stockRet |-> 0, benchRet |-> 0]
    ELSE [stockRet |-> Ret(al[start + 1].stock.close, al[end].stock.close),
          benchRet |-> Ret(al[start + 1].bench.close, al[end].bench.close)]

calculateRawRsAnyOverlap(stockData, bench) ==
    IF Len(stockData) < 60 \/ Len(bench) < 60 THEN 0
    ELSE LET al == Aligned(stockData, bench)
             len == Len(al)
             q1Start == MathMax(0, len - 63)
             q2Start == MathMax(0, q1Start - 63)
             q3Start == MathMax(0, q2Start - 63)
             q4Start == MathMax(0, q3Start - 63)
             q1 == calcReturn(al, q1Start, len)
             q2 == calcReturn(al, q2Start, q1Start)
             q3 == calcReturn(al, q3Start, q2Start)
             q4 == calcReturn(al, q4Start, q3Start)
         IN  IF len < 1 THEN 0
             ELSE 2 * (q1.stockRet - q1.benchRet) + (q2.stockRet - q2.benchRet)
                  + (q3.stockRet - q3.benchRet) + (q4.stockRet - q4.benchRet)

calculateRawRs(stockData, bench) ==
    IF Len(stockData) < 60 \/ Len(bench) < 60 THEN 0
    ELSE LET al == Aligned(stockData, bench)
             len == Len(al)
             q1Start == MathMax(0, len - 63)
             q2Start == MathMax(0, q1Start - 63)
             q3Start == MathMax(0, q2Start - 63)
             q4Start == MathMax(0, q3Start - 63)
             q1 == calcReturn(al, q1Start, len)
             q2 == calcReturn(al, q2Start, q1Start)
             q3 == calcReturn(al, q3Start, q2Start)
             q4 == calcReturn(al, q4Start, q3Start)
         IN  IF len < 60 THEN 0
             ELSE 2 * (q1.stockRet - q1.benchRet) + (q2.stockRet - q2.benchRet)
                  + (q3.stockRet - q3.benchRet) + (q4.stockRet - q4.benchRet)

(***************************************************************************)
(* passesLiquidity: price >= MIN_PRICE and price * avgVol50 >=             *)
(* MIN_ADV_DOLLARS, with avgVol50 = n / d units of VolUnit shares.         *)
(***************************************************************************)
passesLiquidityAboveFloor(d, price, avgVol50) ==
    IF price < MIN_PRICE THEN FALSE
    ELSE price * avgVol50.n > (MIN_ADV_DOLLARS \div VolUnit) * avgVol50.d

passesLiquidity(d, price, avgVol50) ==
    IF price < MIN_PRICE THEN FALSE
    ELSE price * avgVol50.n >= (MIN_ADV_DOLLARS \div VolUnit) * avgVol50.d

Count(b) == IF b THEN 1 ELSE 0

(***************************************************************************)
(* checkTrendTemplate.  DIST_52W_LOW = 1.25 and MAX_DIST_52W_HIGH = 0.75   *)
(* appear as the integer comparisons 4 p >= 5 low and 4 p >= 3 high.       *)
(***************************************************************************)
checkTrendTemplatePassesAtSix(d) ==
    IF Len(d) < 200 THEN [passes |-> FALSE, criteriaCount |-> 0]
    ELSE LET price == Rat(d[Len(d)].close, 1)
             ma50 == sma(d, 50)
             ma150 == sma(d, 150)
             ma200 == sma(d, 200)
             ma200ago == smaAt(d, 200, Len(d) - 1 - MA200_RISE_DAYS)
             from == MathMax(1, Len(d) - 252 + 1)
             low52w == MinLow(d, from, Len(d))
             high52w == MaxHigh(d, from, Len(d))
             criteriaCount ==
                 Count(RatLt(ma150, price) /\ RatLt(ma200, price))
                 + Count(RatLt(ma200, ma150))
                 + Count(~Falsy(ma200ago) /\ RatLt(ma200ago, ma200))
                 + Count(RatLt(ma150, ma50) /\ RatLt(ma200, ma50))
                 + Count(RatLt(ma50, price))
                 + Count(4 * price.n >= 5 * low52w)
                 + Count(4 * price.n >= 3 * high52w)
         IN  IF Falsy(ma50) \/ Falsy(ma150) \/ Falsy(ma200)
             THEN [passes |-> FALSE, criteriaCount |-> 0]
             ELSE [passes |-> criteriaCount >= 6, criteriaCount |-> criteriaCount]

checkTrendTemplate(d) ==
    IF Len(d) < 200 THEN [passes |-> FALSE, criteriaCount |-> 0]
    ELSE LET price == Rat(d[Len(d)].close, 1)
             ma50 == sma(d, 50)
             ma150 == sma(d, 150)
             ma200 == sma(d, 200)
             ma200ago == smaAt(d, 200, Len(d) - 1 - MA200_RISE_DAYS)
             from == MathMax(1, Len(d) - 252 + 1)
             low52w == MinLow(d, from, Len(d))
             high52w == MaxHigh(d, from, Len(d))
             criteriaCount ==
                 Count(RatLt(ma150, price) /\ RatLt(ma200, price))
                 + Count(RatLt(ma200, ma150))
                 + Count(~Falsy(ma200ago) /\ RatLt(ma200ago, ma200))
                 + Count(RatLt(ma150, ma50) /\ RatLt(ma200, ma50))
                 + Count(RatLt(ma50, price))
                 + Count(4 * price.n >= 5 * low52w)
                 + Count(4 * price.n >= 3 * high52w)
         IN  IF Falsy(ma50) \/ Falsy(ma150) \/ Falsy(ma200)
             THEN [passes |-> FALSE, criteriaCount |-> 0]
             ELSE [passes |-> criteriaCount >= 7, criteriaCount |-> criteriaCount]

(***************************************************************************)
(* checkVcp.  VcpGates is the part after the guard on atr14 and avgVol50.  *)
(* The gates against VCP_ATR_RATIO = 0.75, VCP_VOL_RATIO = 0.80,           *)
(* VCP_RANGE_MAX = 0.08, VCP_NEAR_HIGH = 0.85 and 1.02 are the same        *)
(* comparisons cleared of their denominators.                              *)
(***************************************************************************)
VcpGatesNoContraction(d) ==
    LET price == d[Len(d)].close
        avgVol50 == avgVolume(d, 50)
        longerAtr == calcAtr(SliceLast(d, 60), 14)
        recentAtr == calcAtr(SliceLast(d, 20), 14)
        recentAvgVol == avgVolume(d, 5)
        range10 == MaxHigh(d, LastFrom(d, 10), Len(d)) - MinLow(d, LastFrom(d, 10), Len(d))
        high60d == MaxHigh(d, LastFrom(d, 60), Len(d))
        low52w == MinLow(d, LastFrom(d, 252), Len(d))
        recentLow == MinLow(d, LastFrom(d, 10), Len(d))
    IN  IF Falsy(longerAtr) \/ Falsy(recentAtr) THEN FALSE
        ELSE IF Falsy(recentAvgVol)
                \/ 5 * recentAvgVol.n * avgVol50.d >= 4 * avgVol50.n * recentAvgVol.d
             THEN FALSE
        ELSE IF 100 * range10 > 8 * price THEN FALSE
        ELSE IF 100 * price < 85 * high60d THEN FALSE
        ELSE IF 100 * recentLow <= 102 * low52w THEN FALSE
        ELSE TRUE

VcpGates(d) ==
    LET price == d[Len(d)].close
        avgVol50 == avgVolume(d, 50)
        longerAtr == calcAtr(SliceLast(d, 60), 14)
        recentAtr == calcAtr(SliceLast(d, 20), 14)
        recentAvgVol == avgVolume(d, 5)
        range10 == MaxHigh(d, LastFrom(d, 10), Len(d)) - MinLow(d, LastFrom(d, 10), Len(d))
        high60d == MaxHigh(d, LastFrom(d, 60), Len(d))
        low52w == MinLow(d, LastFrom(d, 252), Len(d))
        recentLow == MinLow(d, LastFrom(d, 10), Len(d))
    IN  IF Falsy(longerAtr) \/ Falsy(recentAtr) THEN FALSE
        ELSE IF 4 * recentAtr.n * longerAtr.d >= 3 * longerAtr.n * recentAtr.d THEN FALSE
        ELSE IF Falsy(recentAvgVol)
                \/ 5 * recentAvgVol.n * avgVol50.d >= 4 * avgVol50.n * recentAvgVol.d
             THEN FALSE
        ELSE IF 100 * range10 > 8 * price THEN FALSE
        ELSE IF 100 * price < 85 * high60d THEN FALSE
        ELSE IF 100 * recentLow <= 102 * low52w THEN FALSE
        ELSE TRUE

checkVcpSkipPasses(d) ==
    IF Len(d) < 65 THEN FALSE
    ELSE IF Falsy(calcAtr(d, 14)) \/ Falsy(avgVolume(d, 50)) THEN TRUE
    ELSE VcpGates(d)

checkVcp(d) ==
    IF Len(d) < 65 THEN FALSE
    ELSE IF Falsy(calcAtr(d, 14)) \/ Falsy(avgVolume(d, 50)) THEN FALSE
    ELSE VcpGates(d)

(***************************************************************************)
(* checkBreakout: a grade "A", "B" or "C", or NoBreakout.                  *)
(* BO_VOL_MULT = 1.40 appears as 10 v < 14 avg.                            *)
(***************************************************************************)
checkBreakoutEitherForA(d) ==
    IF Len(d) < BO_PIVOT_BARS + 5 THEN NoBreakout
    ELSE LET currentPrice == d[Len(d)].close
             currentVolume == d[Len(d)].volume
             pivotHigh == MaxHigh(d, MathMax(1, Len(d) - BO_PIVOT_BARS), Len(d) - 1)
             avgVol50 == avgVolume(d, 50)
             range20 == MaxHigh(d, MathMax(1, Len(d) - 20), Len(d) - 1)
                        - MinLow(d, MathMax(1, Len(d) - 20), Len(d) - 1)
         IN  IF Falsy(avgVol50) THEN NoBreakout
             ELSE IF currentPrice <= pivotHigh THEN NoBreakout
             ELSE IF 10 * currentVolume * avgVol50.d < 14 * avgVol50.n THEN NoBreakout
             ELSE IF 4 * range20 > currentPrice THEN NoBreakout
             ELSE IF 100 * (currentPrice - pivotHigh) >= 3 * pivotHigh
                     \/ currentVolume * avgVol50.d >= 2 * avgVol50.n THEN "A"
             ELSE IF 100 * (currentPrice - pivotHigh) >= 2 * pivotHigh
                     /\ 2 * currentVolume * avgVol50.d >= 3 * avgVol50.n THEN "B"
             ELSE "C"

checkBreakout(d) ==
    IF Len(d) < BO_PIVOT_BARS + 5 THEN NoBreakout
    ELSE LET currentPrice == d[Len(d)].close
             currentVolume == d[Len(d)].volume
             pivotHigh == MaxHigh(d, MathMax(1, Len(d) - BO_PIVOT_BARS), Len(d) - 1)
             avgVol50 == avgVolume(d, 50)
             range20 == MaxHigh(d, MathMax(1, Len(d) - 20), Len(d) - 1)
                        - MinLow(d, MathMax(1, Len(d) - 20), Len(d) - 1)
         IN  IF Falsy(avgVol50) THEN NoBreakout
             ELSE IF currentPrice <= pivotHigh THEN NoBreakout
             ELSE IF 10 * currentVolume * avgVol50.d < 14 * avgVol50.n THEN NoBreakout
             ELSE IF 4 * range20 > currentPrice THEN NoBreakout
             ELSE IF 100 * (currentPrice - pivotHigh) >= 3 * pivotHigh
                     /\ currentVolume * avgVol50.d >= 2 * avgVol50.n THEN "A"
             ELSE IF 100 * (currentPrice - pivotHigh) >= 2 * pivotHigh
                     /\ 2 * currentVolume * avgVol50.d >= 3 * avgVol50.n THEN "B"
             ELSE "C"

(***************************************************************************)
(* Math.round(x * 100) / 100, kept as the integer number of hundredths.    *)
(* Where x * 100 is exactly k + 1/2 the double product can fall just below *)
(* it and round to k (299.525 gives 299.52); the series of this model      *)
(* produce no such value.                                                  *)
(***************************************************************************)
Round2(x) == MathRound(100 * x.n, x.d)

(***************************************************************************)
(* runPipeline: phase 1 for one symbol, a ScreenerResult or NULL.          *)
(* Screen is the part after the guard on the length of the series.         *)
(***************************************************************************)
ScreenGradesBreakout(symbol, d, bench) ==
    LET price == d[Len(d)].close
        avgVol50 == avgVolume(d, 50)
        ma50 == sma(d, 50)
        ma150 == sma(d, 150)
        ma200 == sma(d, 200)
        atr == calcAtr(d, 14)
        from == MathMax(1, Len(d) - 252 + 1)
        high52w == MaxHigh(d, from, Len(d))
        low52w == MinLow(d, from, Len(d))
        templateResult == checkTrendTemplate(d)
    IN  IF Falsy(avgVol50) \/ ~passesLiquidity(d, price, avgVol50) THEN NULL
        ELSE IF Falsy(ma50) \/ Falsy(ma150) \/ Falsy(ma200) \/ Falsy(atr) THEN NULL
        ELSE [symbol |-> symbol,
              price |-> 100 * price,
              rs |-> 0,
              rawRs |-> calculateRawRs(d, bench),
              grade |-> IF checkBreakout(d) # NoBreakout THEN checkBreakout(d) ELSE "N/A",
              passesTemplate |-> templateResult.passes,
              passesVcp |-> templateResult.passes /\ checkVcp(d),
              passesBreakout |-> checkBreakout(d) # NoBreakout,
              passesLiquidity |-> TRUE,
              distance52wLow |-> Round2(Rat(price, low52w)),
              distance52wHigh |-> Round2(Rat(price, high52w)),
              ma50 |-> Round2(ma50),
              ma150 |-> Round2(ma150),
              ma200 |-> Round2(ma200),
              atr |-> Round2(atr),
              templateCriteria |-> templateResult.criteriaCount]

Screen(symbol, d, bench) ==
    LET price == d[Len(d)].close
        avgVol50 == avgVolume(d, 50)
        ma50 == sma(d, 50)
        ma150 == sma(d, 150)
        ma200 == sma(d, 200)
        atr == calcAtr(d, 14)
        from == MathMax(1, Len(d) - 252 + 1)
        high52w == MaxHigh(d, from, Len(d))
        low52w == MinLow(d, from, Len(d))
        templateResult == checkTrendTemplate(d)
    IN  IF Falsy(avgVol50) \/ ~passesLiquidity(d, price, avgVol50) THEN NULL
        ELSE IF Falsy(ma50) \/ Falsy(ma150) \/ Falsy(ma200) \/ Falsy(atr) THEN NULL
        ELSE [symbol |-> symbol,
              price |-> 100 * price,
              rs |-> 0,
              rawRs |-> calculateRawRs(d, bench),
              grade |-> "N/A",
              passesTemplate |-> templateResult.passes,
              passesVcp |-> templateResult.passes /\ checkVcp(d),
              passesBreakout |-> checkBreakout(d) # NoBreakout,
              passesLiquidity |-> TRUE,
              distance52wLow |-> Round2(Rat(price, low52w)),
              distance52wHigh |-> Round2(Rat(price, high52w)),
              ma50 |-> Round2(ma50),
              ma150 |-> Round2(ma150),
              ma200 |-> Round2(ma200),
              atr |-> Round2(atr),
              templateCriteria |-> templateResult.criteriaCount]

runPipelineBlankWhenShort(symbol, d, bench) ==
    IF Len(d) < 200
    THEN [symbol |-> symbol, price |-> 0, rs |-> 0, rawRs |-> 0, grade |-> "N/A",
          passesTemplate |-> FALSE, passesVcp |-> FALSE, passesBreakout |-> FALSE,
          passesLiquidity |-> FALSE, distance52wLow |-> 0, distance52wHigh |-> 0,
          ma50 |-> 0, ma150 |-> 0, ma200 |-> 0, atr |-> 0, templateCriteria |-> 0]
    ELSE Screen(symbol, d, bench)

runPipeline(symbol, d, bench) ==
    IF Len(d) < 200 THEN NULL ELSE Screen(symbol, d, bench)

(***************************************************************************)
(* A ScreenerResult as phase 1 leaves it, for a batch handed to phase 2    *)
(* directly: the fields phase 2 never reads hold fixed values.             *)
(***************************************************************************)
ScreenerResult(symbol, rawRs, t, v, b) ==
    [symbol |-> symbol, price |-> 10000, rs |-> 0, rawRs |-> rawRs, grade |-> "N/A",
     passesTemplate |-> t, passesVcp |-> v, passesBreakout |-> b,
     passesLiquidity |-> TRUE, distance52wLow |-> 150, distance52wHigh |-> 90,
     ma50 |-> 9000, ma150 |-> 8000, ma200 |-> 7000, atr |-> 200,
     templateCriteria |-> IF t THEN 7 ELSE 0]

(***************************************************************************)
(* [...results].sort((a, b) => a.rawRs - b.rawRs): a stable ascending      *)
(* sort.  The sorted array holds references to the same objects, modelled  *)
(* as indices into results.  Insert places index k into the sorted         *)
(* sequence s after every index whose rawRs is not larger, which is what a *)
(* stable sort does; s being sorted, these are its first p indices.        *)
(* SortFrom(rs, s, hi) extends s, which holds the first Len(s) results     *)
(* sorted, by the results up to hi, one half of them after the other.      *)
(***************************************************************************)
InsertDescending(rs, s, k) ==
    LET p == Cardinality({ i \in DOMAIN s : rs[s[i]].rawRs >= rs[k].rawRs })
    IN  SubSeq(s, 1, p) \o <<k>> \o SubSeq(s, p + 1, Len(s))

InsertBeforeTies(rs, s, k) ==
    LET p == Cardinality({ i \in DOMAIN s : rs[s[i]].rawRs < rs[k].rawRs })
    IN  SubSeq(s, 1, p) \o <<k>> \o SubSeq(s, p + 1, Len(s))

Insert(rs, s, k) ==
    LET p == Cardinality({ i \in DOMAIN s : rs[s[i]].rawRs <= rs[k].rawRs })
    IN  SubSeq(s, 1, p) \o <<k>> \o SubSeq(s, p + 1, Len(s))

RECURSIVE SortFrom(_, _, _)
SortFrom(rs, s, hi) ==
    LET lo == Len(s) + 1
    IN  IF lo > hi THEN s
        ELSE IF lo = hi THEN Insert(rs, s, hi)
        ELSE SortFrom(rs, SortFrom(rs, s, (lo + hi) \div 2), hi)

InputOrder(rs) == [k \in 1..Len(rs) |-> k]

SortByRawRs(rs) == SortFrom(rs, <<>>, Len(rs))

(***************************************************************************)
(* Math.max(1, Math.min(99, Math.round(((i + 1) / n) * 99))) for the       *)
(* 0-based position i.  The double product equals the exact quotient       *)
(* rounded for every n below 22 (at n = 22, i = 2 the double is            *)
(* 13.499999999999998 and rounds to 13 where the exact 13.5 rounds to 14), *)
(* and for n = 100 and n = 101.                                            *)
(***************************************************************************)
PercentileOfPosition(i, n) == MathMax(1, MathMin(99, MathRound(i * 99, n)))

PercentileTruncated(i, n) == MathMax(1, MathMin(99, ((i + 1) * 99) \div n))

Percentile(i, n) == MathMax(1, MathMin(99, MathRound((i + 1) * 99, n)))

(***************************************************************************)
(* The loop over sorted: sorted[i].rs = ... writes through the reference   *)
(* into the result of the batch that sorted[i] is.  AssignFrom runs the    *)
(* loop from the 1-based position i up to the position last; sorted holds  *)
(* every result once, so the loop writes each result at most once.         *)
(***************************************************************************)
AssignFrom(rs, s, i, last) ==
    [k \in 1..Len(rs) |->
        LET p == CHOOSE q \in DOMAIN s : s[q] = k
        IN  IF p \in i..last
            THEN [rs[k] EXCEPT !.rs = Percentile(p - 1, Len(s))]
            ELSE rs[k]]

assignPercentileRanksSkipLast(rs) ==
    IF Len(rs) = 0 THEN rs
    ELSE AssignFrom(rs, SortByRawRs(rs), 1, Len(rs) - 1)

assignPercentileRanks(rs) ==
    IF Len(rs) = 0 THEN rs
    ELSE AssignFrom(rs, SortByRawRs(rs), 1, Len(rs))

assignGradeBFirst(result) ==
    IF result.passesBreakout /\ result.passesTemplate THEN "B"
    ELSE IF result.passesBreakout /\ result.passesTemplate /\ result.rs >= 80 THEN "A"
    ELSE IF result.passesTemplate /\ result.passesVcp /\ result.rs >= 70 THEN "B"
    ELSE IF result.passesTemplate /\ result.rs >= 70 THEN "C"
    ELSE IF result.passesTemplate THEN "D"
    ELSE "N/A"

assignGrade(result) ==
    IF result.passesBreakout /\ result.passesTemplate /\ result.rs >= 80 THEN "A"
    ELSE IF result.passesBreakout /\ result.passesTemplate THEN "B"
    ELSE IF result.passesTemplate /\ result.passesVcp /\ result.rs >= 70 THEN "B"
    ELSE IF result.passesTemplate /\ result.rs >= 70 THEN "C"
    ELSE IF result.passesTemplate THEN "D"
    ELSE "N/A"

(***************************************************************************)
(* Step 2 of postProcessResults for one result: the RS gate on the         *)
(* template, then the re-check of VCP against the updated template flag.   *)
(***************************************************************************)
RegateKeepsVcp(result) ==
    LET t == IF result.passesTemplate /\ result.rs < 70
             THEN FALSE ELSE result.passesTemplate
    IN  [result EXCEPT !.passesTemplate = t]

RegateVcpFirst(result) ==
    LET v == IF result.passesVcp /\ ~result.passesTemplate
             THEN FALSE ELSE result.passesVcp
        t == IF result.passesTemplate /\ result.rs < 70
             THEN FALSE ELSE result.passesTemplate
    IN  [result EXCEPT !.passesTemplate = t, !.passesVcp = v]

RegateAtSixty(result) ==
    LET t == IF result.passesTemplate /\ result.rs < 60
             THEN FALSE ELSE result.passesTemplate
        v == IF result.passesVcp /\ ~t THEN FALSE ELSE result.passesVcp
    IN  [result EXCEPT !.passesTemplate = t, !.passesVcp = v]

RegateAtEighty(result) ==
    LET t == IF result.passesTemplate /\ result.rs < 80
             THEN FALSE ELSE result.passesTemplate
        v == IF result.passesVcp /\ ~t THEN FALSE ELSE result.passesVcp
    IN  [result EXCEPT !.passesTemplate = t, !.passesVcp = v]

Regate(result) ==
    LET t == IF result.passesTemplate /\ result.rs < 70
             THEN FALSE ELSE result.passesTemplate
        v == IF result.passesVcp /\ ~t THEN FALSE ELSE result.passesVcp
    IN  [result EXCEPT !.passesTemplate = t, !.passesVcp = v]

postProcessResultsInRankOrder(rs) ==
    LET ranked == assignPercentileRanks(rs)
        gated  == [k \in 1..Len(rs) |-> Regate(ranked[k])]
        s      == SortByRawRs(rs)
    IN  [k \in 1..Len(rs) |-> [gated[s[k]] EXCEPT !.grade = assignGrade(gated[s[k]])]]

postProcessResults(rs) ==
    LET ranked == assignPercentileRanks(rs)
        gated  == [k \in 1..Len(rs) |-> Regate(ranked[k])]
    IN  [k \in 1..Len(rs) |-> [gated[k] EXCEPT !.grade = assignGrade(gated[k])]]

(***************************************************************************)
(* Batches handed to the batch step: any length up to MaxBatch, any raw    *)
(* score in 0..MaxRaw for every result (so ties and strict orders both     *)
(* occur), and any combination of the three pattern flags on up to         *)
(* MaxSetups of the results, the others having no flag set; and batches of *)
(* LargeBatch results without flags, more than there are ranks, whose raw  *)
(* scores are all equal or alternate between two values; and batches of up *)
(* to MaxBatch + 1 results whose raw scores all differ and descend along   *)
(* the list, with flags on up to MaxSetups of them.                        *)
(***************************************************************************)
Flags == [t : BOOLEAN, v : BOOLEAN, b : BOOLEAN]

NoFlags == [t |-> FALSE, v |-> FALSE, b |-> FALSE]

BatchOf(raw, f) ==
    [k \in DOMAIN raw |->
        LET c == IF k \in DOMAIN f THEN f[k] ELSE NoFlags
        IN  ScreenerResult(k, raw[k], c.t, c.v, c.b)]

SetupPositions(n) == { S \in SUBSET (1..n) : Cardinality(S) <= MaxSetups }

InitBatch ==
    /\ \/ \E n \in 0..MaxBatch : \E raw \in [1..n -> 0..MaxRaw] :
            \E S \in SetupPositions(n) : \E f \in [S -> Flags \ {NoFlags}] :
               results = BatchOf(raw, f)
       \/ \E m \in {1, 2} : results = BatchOf([k \in 1..LargeBatch |-> k % m], <<>>)
       \/ \E n \in 2..(MaxBatch + 1) : \E S \in SetupPositions(n) :
            \E f \in [S -> Flags \ {NoFlags}] :
               results = BatchOf([k \in 1..n |-> n - k], f)
    /\ entry = results
    /\ sorted = <<>>
    /\ op = "init"
    /\ data = <<>>
    /\ benchmarkData = <<>>
    /\ arg = 0
    /\ ret = NULL
    /\ handler = "none"
    /\ trace = <<>>

(***************************************************************************)
(* Each exported batch function is applied to a fresh batch and may then   *)
(* be applied again to its own output.                                     *)
(***************************************************************************)
CallAssignPercentileRanks ==
    /\ op \in {"init", "assignPercentileRanks"}
    /\ entry' = results
    /\ sorted' = IF Len(results) = 0 THEN <<>> ELSE SortByRawRs(results)
    /\ results' = assignPercentileRanks(results)
    /\ op' = "assignPercentileRanks"
    /\ UNCHANGED <<data, benchmarkData, arg, ret, handler, trace>>

CallPostProcessResults ==
    /\ op \in {"init", "postProcessResults"}
    /\ entry' = results
    /\ sorted' = IF Len(results) = 0 THEN <<>> ELSE SortByRawRs(results)
    /\ results' = postProcessResults(results)
    /\ op' = "postProcessResults"
    /\ UNCHANGED <<data, benchmarkData, arg, ret, handler, trace>>

(***************************************************************************)
(* Series handed to the per-symbol functions.  Bar i of a series has date  *)
(* first + i - 1 and close base + slope * (i - 1); its high and low lie    *)
(* spread above and below the close and it opens at the close.  Every bar  *)
(* trades vol units, except that the last bar closes jump higher and       *)
(* trades surge times the volume.  Dates ascend and are unique.            *)
(***************************************************************************)
Bar(date, close, spread, volume) ==
    [date |-> date, open |-> close, high |-> close + spread,
     low |-> close - spread, close |-> close, volume |-> volume]

Series(s) ==
    [i \in 1..s.len |->
        IF i = s.len
        THEN Bar(s.first + i - 1, s.base + s.slope * (i - 1) + s.jump, s.spread,
                 s.vol * s.surge)
        ELSE Bar(s.first + i - 1, s.base + s.slope * (i - 1), s.spread, s.vol)]

Periods == {5, 14, 50, 200}

Lens == UNION { {p - 1, p, p + 1} : p \in Periods } \cup {222, MaxLen}

LastBars == { [jump |-> 0, surge |-> 1], [jump |-> 4, surge |-> 3] }

(***************************************************************************)
(* Last bars that close 1 to 4 above the previous close on 1 to 3 times    *)
(* the volume: on a base at 100 they stand 1% to 4% above the pivot, the   *)
(* volume at 1, 100/51 and 150/52 times its 50-day average.                *)
(***************************************************************************)
BreakoutBars == { [jump |-> j, surge |-> k] : j \in 1..4, k \in 1..3 }

ShapesOf(lens, bases, vols, lasts) ==
    { [len |-> len, first |-> 1, base |-> base, slope |-> slope, spread |-> spread,
       vol |-> vol, jump |-> last.jump, surge |-> last.surge] :
        len \in lens, base \in bases, slope \in {0, 1}, spread \in {0, 1},
        vol \in vols, last \in lasts }

Ordinary == { [jump |-> 0, surge |-> 1] }

(***************************************************************************)
(* Series around the two floors of the liquidity filter: a close of 9 and  *)
(* of 10 (and prices far above), and volumes that put the dollar volume    *)
(* just below and exactly at 20,000,000 at a close of 100 (199 and 200     *)
(* units a day) and exactly at it at a close of 10 (2000 units a day).     *)
(***************************************************************************)
FloorShapes == ShapesOf({MaxLen}, {9, 10, 100}, {199, 200, 2000}, Ordinary)

(***************************************************************************)
(* Series that fall from 400 by 1 a session, and close their last bar 0    *)
(* or 60 higher.                                                           *)
(***************************************************************************)
Reversals ==
    { [len |-> MaxLen, first |-> 1, base |-> 400, slope |-> -1, spread |-> 1,
       vol |-> 1000, jump |-> j, surge |-> 1] : j \in {0, 60} }

Shapes ==
    ShapesOf(Lens, {5, 100}, {0, 1, 1000}, LastBars)
        \cup ShapesOf({MaxLen}, {100}, {1000}, BreakoutBars)
        \cup FloorShapes
        \cup Reversals

(***************************************************************************)
(* What else a series can be: with the date of its last bar a second time  *)
(* (the client sorts the bars it fetches by date but does not drop a date  *)
(* that comes twice), with its last two dates out of order (a series       *)
(* handed to the core by another caller), with half the volume on its last *)
(* 5 bars, or with that and no intraday range on its last 20 bars.         *)
(***************************************************************************)
Variants == {"asIs", "duplicateDate", "descendingDates", "dryUp", "quietDryUp"}

VariantsOf(s) ==
    IF s.len = MaxLen /\ s.base = 100 /\ s.vol = 1000 /\ s.jump = 0
    THEN Variants ELSE {"asIs"}

Variant(d, v) ==
    IF v = "duplicateDate" THEN [d EXCEPT ![Len(d)].date = d[Len(d) - 1].date]
    ELSE IF v = "descendingDates"
    THEN [d EXCEPT ![Len(d)].date = d[Len(d) - 1].date,
                   ![Len(d) - 1].date = d[Len(d)].date]
    ELSE IF v = "dryUp"
    THEN [i \in DOMAIN d |->
            IF i > Len(d) - 5 THEN [d[i] EXCEPT !.volume = d[i].volume \div 2] ELSE d[i]]
    ELSE IF v = "quietDryUp"
    THEN [i \in DOMAIN d |->
            LET bar == IF i > Len(d) - 20
                       THEN [d[i] EXCEPT !.high = d[i].close, !.low = d[i].close]
                       ELSE d[i]
            IN  IF i > Len(d) - 5 THEN [bar EXCEPT !.volume = bar.volume \div 2] ELSE bar]
    ELSE d

Benchmarks ==
    { [len |-> len, first |-> 1, base |-> 400, slope |-> 1, spread |-> 1,
       vol |-> 1000, jump |-> 0, surge |-> 1] : len \in {0, MaxLen} }

(***************************************************************************)
(* Benchmarks that do not carry every date of the series: starting later,  *)
(* so that only the last 200, 60 or 59 sessions of a series of MaxLen      *)
(* sessions have a benchmark bar; of 59 bars only; and with one session    *)
(* missing (its bar carries a date no series has).                         *)
(***************************************************************************)
ShiftedBenchmarks ==
    { [len |-> MaxLen, first |-> f, base |-> 400, slope |-> 1, spread |-> 1,
       vol |-> 1000, jump |-> 0, surge |-> 1] : f \in {101, MaxLen - 59, MaxLen - 58} }
        \cup { [len |-> 59, first |-> 1, base |-> 400, slope |-> 1, spread |-> 1,
                vol |-> 1000, jump |-> 0, surge |-> 1] }

Holiday(b) == [b EXCEPT ![Len(b) - 10].date = 0]

BenchmarksOf(s) ==
    IF VariantsOf(s) = Variants
    THEN { Series(b) : b \in Benchmarks \cup ShiftedBenchmarks }
             \cup { Holiday(Series(b)) : b \in { x \in Benchmarks : x.len = MaxLen } }
    ELSE { Series(b) : b \in Benchmarks }

InitSeries ==
    /\ results = <<>>
    /\ entry = <<>>
    /\ sorted = <<>>
    /\ op = "init"
    /\ \E s \in Shapes : \E v \in VariantsOf(s) : \E b \in BenchmarksOf(s) :
          /\ data = Variant(Series(s), v)
          /\ benchmarkData = b
    /\ arg = 0
    /\ ret = NULL
    /\ handler = "none"
    /\ trace = <<>>

(***************************************************************************)
(* Calls of the per-symbol functions on the series at hand.  The screener  *)
(* route skips a symbol whose series is empty before it calls the core.    *)
(* The functions are pure, so one call per series is all a behaviour       *)
(* needs: op is the position of the caller.  The batch functions may be    *)
(* called again and again on the list they have already worked on.         *)
(***************************************************************************)
Call(name, p, value) ==
    /\ op = "init"
    /\ Len(data) > 0
    /\ op' = name
    /\ arg' = p
    /\ ret' = value
    /\ UNCHANGED <<results, entry, sorted, data, benchmarkData, handler, trace>>

CallSma == \E p \in Periods : Call("sma", p, sma(data, p))

CallAvgVolume == \E p \in Periods : Call("avgVolume", p, avgVolume(data, p))

CallCalcAtr == \E p \in Periods : Call("calcAtr", p, calcAtr(data, p))

CallCalculateRawRs == Call("calculateRawRs", 0, calculateRawRs(data, benchmarkData))

CallCheckTrendTemplate == Call("checkTrendTemplate", 0, checkTrendTemplate(data))

CallCheckVcp == Call("checkVcp", 0, checkVcp(data))

CallCheckBreakout == Call("checkBreakout", 0, checkBreakout(data))

CallRunPipeline == Call("runPipeline", 0, runPipeline(1, data, benchmarkData))

(***************************************************************************)
(* The screener route, POST /api/screener.  The repository holds two       *)
(* versions of the handler: the one of src/unnamed/part_000, which calls   *)
(* postProcessResults after its loop, and the one of                       *)
(* src/app/api/screener/route.ts, which goes from the loop to the sort.    *)
(* handler tells which one is running.  op is the position in the handler, *)
(* arg the number of symbols of the universe the loop has handled, results *)
(* the handler's results array, ret the response.  trace records the calls *)
(* the handler has made, in order.  The universe has MaxUniverse symbols   *)
(* (CURATED_UNIVERSE has 40), numbered from 1.                             *)
(***************************************************************************)
Handlers == {"part_000", "route.ts"}

(***************************************************************************)
(* What fetchBars can hold for a symbol: nothing, a series too short, an   *)
(* illiquid one, a flat and a rising liquid one, a rising one that breaks  *)
(* out on its last bar, and a series whose last element is not a bar, on   *)
(* which runPipeline throws a TypeError at data[data.length - 1].close.    *)
(***************************************************************************)
RouteShape(len, slope, vol, jump, surge) ==
    [len |-> len, first |-> 1, base |-> 100, slope |-> slope, spread |-> 1,
     vol |-> vol, jump |-> jump, surge |-> surge]

Malformed(d) == [d EXCEPT ![Len(d)] = NULL]

Throws(d) == Len(d) >= 200 /\ d[Len(d)] = NULL

RouteInputs ==
    { <<>>,
      Series(RouteShape(199, 1, 1000, 0, 1)),
      Series(RouteShape(MaxLen, 1, 1, 0, 1)),
      Series(RouteShape(MaxLen, 0, 1000, 0, 1)),
      Series(RouteShape(MaxLen, 1, 1000, 0, 1)),
      Series(RouteShape(MaxLen, 1, 1000, 4, 3)),
      Malformed(Series(RouteShape(MaxLen, 1, 1000, 0, 1))) }

(***************************************************************************)
(* runPipeline uses its symbol only as the symbol field of the result, so  *)
(* its value on a series of RouteInputs against the benchmark the route    *)
(* fetches is computed once, in Screened, and given the symbol at hand.    *)
(***************************************************************************)
RouteBenchmark == Series(CHOOSE s \in Benchmarks : s.len = MaxLen)

Screened ==
    [d \in { x \in RouteInputs : Len(x) > 0 /\ ~Throws(x) } |->
        runPipeline(0, d, RouteBenchmark)]

WithSymbol(r, symbol) == IF r = NULL THEN NULL ELSE [r EXCEPT !.symbol = symbol]

Failure(status) == [success |-> FALSE, status |-> status, results |-> <<>>]

Success(rs) == [success |-> TRUE, status |-> 200, results |-> rs]

Called(call, symbol, outcome) == [call |-> call, symbol |-> symbol, outcome |-> outcome]

(***************************************************************************)
(* results.sort((a, b) => b.rs - a.rs): a stable sort, descending by rs.   *)
(***************************************************************************)
RECURSIVE InsertByRs(_, _)
InsertByRs(s, r) ==
    IF s = <<>> THEN <<r>>
    ELSE IF Head(s).rs >= r.rs THEN <<Head(s)>> \o InsertByRs(Tail(s), r)
    ELSE <<r>> \o s

RECURSIVE SortByRsFrom(_, _, _)
SortByRsFrom(rs, s, k) ==
    IF k > Len(rs) THEN s ELSE SortByRsFrom(rs, InsertByRs(s, rs[k]), k + 1)

SortByRsDescending(rs) == SortByRsFrom(rs, <<>>, 1)

InitRoute ==
    /\ handler \in Handlers
    /\ results = <<>>
    /\ entry = <<>>
    /\ sorted = <<>>
    /\ op = "POST"
    /\ data = <<>>
    /\ \E s \in Benchmarks : benchmarkData = Series(s)
    /\ arg = 0
    /\ ret = NULL
    /\ trace = <<>>

(***************************************************************************)
(* The handler up to its loop: the API key, the benchmark, the bars.  A    *)
(* missing key, a failed or empty benchmark fetch and a failed fetch of    *)
(* the bars each end the request with an error response.                   *)
(***************************************************************************)
PostFetch ==
    /\ op = "POST"
    /\ \E fault \in {"none", "apiKey", "fetchBenchmark", "fetchBars"} :
         IF fault = "apiKey"
         THEN /\ ret' = Failure(IF handler = "route.ts" THEN 400 ELSE 500)
              /\ op' = "POST.returned"
         ELSE IF fault # "none" \/ Len(benchmarkData) = 0
         THEN /\ ret' = Failure(500)
              /\ op' = "POST.returned"
         ELSE /\ ret' = ret
              /\ op' = "POST.loop"
    /\ UNCHANGED <<results, entry, sorted, data, benchmarkData, arg, handler, trace>>

(***************************************************************************)
(* One pass of the loop over the universe: a symbol without bars is        *)
(* skipped; a throw of runPipeline is caught and logged; a result that is  *)
(* not null is pushed.                                                     *)
(***************************************************************************)
PostScreen ==
    /\ op = "POST.loop"
    /\ arg < MaxUniverse
    /\ \E stockData \in RouteInputs :
         LET symbol == arg + 1
             result == IF benchmarkData = RouteBenchmark
                       THEN WithSymbol(Screened[stockData], symbol)
                       ELSE runPipeline(symbol, stockData, benchmarkData)
         IN  /\ data' = stockData
             /\ IF Len(stockData) = 0
                THEN /\ results' = results
                     /\ trace' = Append(trace, Called("continue", symbol, "noData"))
                ELSE IF Throws(stockData)
                THEN /\ results' = results
                     /\ trace' = Append(trace, Called("runPipeline", symbol, "threw"))
                ELSE IF result = NULL
                THEN /\ results' = results
                     /\ trace' = Append(trace, Called("runPipeline", symbol, "null"))
                ELSE /\ results' = Append(results, result)
                     /\ trace' = Append(trace, Called("runPipeline", symbol, "result"))
    /\ arg' = arg + 1
    /\ UNCHANGED <<entry, sorted, op, benchmarkData, ret, handler>>

(***************************************************************************)
(* After the loop, part_000: postProcessResults, the sort, the response.   *)
(***************************************************************************)
PostFinish ==
    /\ op = "POST.loop"
    /\ arg = MaxUniverse
    /\ handler = "part_000"
    /\ entry' = results
    /\ results' = SortByRsDescending(postProcessResults(results))
    /\ ret' = Success(results')
    /\ trace' = trace \o << Called("postProcessResults", 0, "done"),
                            Called("sort", 0, "done") >>
    /\ op' = "POST.returned"
    /\ UNCHANGED <<sorted, data, benchmarkData, arg, handler>>

(***************************************************************************)
(* After the loop, route.ts: the sort, the response.                       *)
(***************************************************************************)
PostFinishRouteTs ==
    /\ op = "POST.loop"
    /\ arg = MaxUniverse
    /\ handler = "route.ts"
    /\ entry' = results
    /\ results' = SortByRsDescending(results)
    /\ ret' = Success(results')
    /\ trace' = Append(trace, Called("sort", 0, "done"))
    /\ op' = "POST.returned"
    /\ UNCHANGED <<sorted, data, benchmarkData, arg, handler>>

NextBatch == CallAssignPercentileRanks \/ CallPostProcessResults

NextSeries ==
    \/ CallSma
    \/ CallAvgVolume
    \/ CallCalcAtr
    \/ CallCalculateRawRs
    \/ CallCheckTrendTemplate
    \/ CallCheckVcp
    \/ CallCheckBreakout
    \/ CallRunPipeline

NextRoute == PostFetch \/ PostScreen \/ PostFinish \/ PostFinishRouteTs

(***************************************************************************)
(* SpecBatch: phase 2 on batches.  SpecSeries: the per-symbol functions on *)
(* series.  SpecRoute: the screener route.  Spec: all of them.             *)
(***************************************************************************)
SpecBatch == InitBatch /\ [][NextBatch]_vars

SpecSeries == InitSeries /\ [][NextSeries]_vars

SpecRoute == InitRoute /\ [][NextRoute]_vars

Init == InitBatch \/ InitSeries \/ InitRoute

Next == NextBatch \/ NextSeries \/ NextRoute

Spec == Init /\ [][Next]_vars

(***************************************************************************)
(*                              Properties                                 *)
(***************************************************************************)
Ranked == op \in {"assignPercentileRanks", "postProcessResults"}

PostProcessed == op = "postProcessResults"

(***************************************************************************)
(* C1.  After postProcessResults, whatever flags and raw scores the batch  *)
(* came with, every result that passes VCP passes the template; and every  *)
(* result runPipeline returns already satisfies the same implication.      *)
(***************************************************************************)
C1_VcpImpliesTemplate ==
    /\ PostProcessed =>
         \A k \in DOMAIN results : results[k].passesVcp => results[k].passesTemplate
    /\ (op = "runPipeline" /\ ret # NULL) => (ret.passesVcp => ret.passesTemplate)

C1_Witness ==
    /\ PostProcessed
    /\ \E k \in DOMAIN results :
         /\ entry[k].passesVcp /\ entry[k].passesTemplate
         /\ results[k].rs < 70
         /\ ~results[k].passesVcp /\ ~results[k].passesTemplate

(***************************************************************************)
(* C2.  postProcessResults is idempotent: a call that follows another call *)
(* of postProcessResults on the same list leaves rs, passesTemplate,       *)
(* passesVcp and grade of every result as they were.                       *)
(***************************************************************************)
SameOutcome(a, b) ==
    /\ a.rs = b.rs
    /\ a.passesTemplate = b.passesTemplate
    /\ a.passesVcp = b.passesVcp
    /\ a.grade = b.grade

C2_Idempotent ==
    [][(PostProcessed /\ op' = "postProcessResults")
         => /\ Len(results') = Len(results)
            /\ \A k \in DOMAIN results : SameOutcome(results'[k], results[k])]_vars

C2_Witness ==
    /\ PostProcessed
    /\ Len(results) >= 3
    /\ \E k \in DOMAIN results :
         /\ results[k].templateCriteria = 7 /\ results[k].rs < 70
         /\ ~entry[k].passesTemplate /\ entry[k].grade = "N/A"
    /\ \A k \in DOMAIN results : entry[k].rs \in 1..99
    /\ \A k \in DOMAIN results : SameOutcome(results[k], entry[k])

(***************************************************************************)
(* C3.  Percentile ranking is monotonic: of two results of a ranked batch, *)
(* the one with the smaller raw score has a rank no larger.                *)
(***************************************************************************)
C3_RankMonotonic ==
    Ranked =>
        \A a, b \in DOMAIN results :
            results[a].rawRs < results[b].rawRs => results[a].rs <= results[b].rs

C3_Witness ==
    /\ op = "assignPercentileRanks"
    /\ \E a, b \in DOMAIN results :
         /\ b < a
         /\ results[a].rawRs < results[b].rawRs
         /\ results[a].rs < results[b].rs

(***************************************************************************)
(* C4.  After assignPercentileRanks on n >= 1 results the sort holds each  *)
(* of the n results at exactly one position, in ascending order of raw     *)
(* score, and every result has an integer rs in 1..99; on an empty batch   *)
(* nothing changes.                                                        *)
(***************************************************************************)
C4_RanksInRange ==
    op = "assignPercentileRanks" =>
        /\ Len(results) = Len(entry)
        /\ Len(results) = 0 => results = entry
        /\ Len(results) >= 1 =>
             /\ Len(sorted) = Len(results)
             /\ { sorted[i] : i \in DOMAIN sorted } = DOMAIN results
             /\ \A i, j \in DOMAIN sorted :
                  i < j => results[sorted[i]].rawRs <= results[sorted[j]].rawRs
             /\ \A k \in DOMAIN results : results[k].rs \in 1..99

C4_Witness ==
    /\ op = "assignPercentileRanks"
    /\ Len(results) >= 3
    /\ \E a, b \in DOMAIN results : a # b /\ results[a].rawRs = results[b].rawRs
    /\ \A k \in DOMAIN results : entry[k].rs = 0 /\ results[k].rs \in 1..99

(***************************************************************************)
(* C5.  For a series shorter than 200 sessions runPipeline returns no      *)
(* result, whatever the prices, the volumes and the benchmark.             *)
(***************************************************************************)
C5_ShortSeriesNoResult ==
    (op = "runPipeline" /\ Len(data) < 200) => ret = NULL

C5_Witness ==
    /\ op = "runPipeline"
    /\ Len(data) = 199
    /\ data[Len(data)].close >= MIN_PRICE
    /\ data[Len(data)].volume > 0
    /\ Len(benchmarkData) > 0
    /\ ret = NULL

(***************************************************************************)
(* C6.  sma and avgVolume are unavailable exactly when the series has      *)
(* fewer bars than the period, calcAtr exactly when it has fewer than the  *)
(* period plus one; otherwise each returns a number.                       *)
(***************************************************************************)
IsNumber(x) == x # NULL /\ x.d = arg /\ x.n \in Int

C6_UnavailableWhenShort ==
    /\ op \in {"sma", "avgVolume"} =>
         IF Len(data) < arg THEN ret = NULL ELSE IsNumber(ret)
    /\ op = "calcAtr" =>
         IF Len(data) < arg + 1 THEN ret = NULL ELSE IsNumber(ret)

C6_Witness ==
    /\ op = "calcAtr"
    /\ Len(data) = arg
    /\ ret = NULL
    /\ sma(data, arg) # NULL
    /\ avgVolume(data, arg) # NULL

(***************************************************************************)
(* C7.  An indicator that is available but equal to 0 does not make        *)
(* runPipeline skip the symbol: a series of at least 200 sessions that     *)
(* passes the liquidity filter has all its indicators available and gets a *)
(* result.                                                                 *)
(***************************************************************************)
C7_ZeroIsNotUnavailable ==
    (/\ op = "runPipeline"
     /\ Len(data) >= 200
     /\ calcAtr(data, 14) # NULL
     /\ passesLiquidity(data, data[Len(data)].close, avgVolume(data, 50)))
        => ret # NULL

(***************************************************************************)
(* C8.  After postProcessResults a result passes the template exactly when *)
(* it passed it on entry and its percentile rank is at least 70.           *)
(***************************************************************************)
C8_TemplateGate ==
    PostProcessed =>
        \A k \in DOMAIN results :
            results[k].passesTemplate <=> (entry[k].passesTemplate /\ results[k].rs >= 70)

C8_Witness ==
    /\ PostProcessed
    /\ \E k \in DOMAIN results :
         /\ entry[k].passesTemplate /\ entry[k].rs = 0
         /\ results[k].rs \in 70..79
         /\ results[k].passesTemplate

(***************************************************************************)
(* C9.  After postProcessResults the grade of a result follows from its    *)
(* final flags and rank by the first of these that applies: A for breakout *)
(* and template and rs >= 80; B for breakout and template; B for template  *)
(* and VCP and rs >= 70; C for template and rs >= 70; D for template;      *)
(* N/A otherwise.                                                          *)
(***************************************************************************)
GradeRules(r) ==
    << [when |-> r.passesBreakout /\ r.passesTemplate /\ r.rs >= 80, grade |-> "A"],
       [when |-> r.passesBreakout /\ r.passesTemplate, grade |-> "B"],
       [when |-> r.passesTemplate /\ r.passesVcp /\ r.rs >= 70, grade |-> "B"],
       [when |-> r.passesTemplate /\ r.rs >= 70, grade |-> "C"],
       [when |-> r.passesTemplate, grade |-> "D"],
       [when |-> TRUE, grade |-> "N/A"] >>

FirstMatch(rules) ==
    rules[CHOOSE i \in DOMAIN rules :
            rules[i].when /\ \A j \in 1..(i - 1) : ~rules[j].when].grade

C9_GradeByPriority ==
    PostProcessed =>
        \A k \in DOMAIN results : results[k].grade = FirstMatch(GradeRules(results[k]))

C9_Witness ==
    /\ PostProcessed
    /\ \E k \in DOMAIN results :
         /\ results[k].grade = "B"
         /\ results[k].passesBreakout /\ results[k].passesTemplate
         /\ results[k].rs \in 70..79

(***************************************************************************)
(* C10.  A series that is flat for MaxLen sessions (every bar with the     *)
(* same open = high = low = close and the same volume) does not pass the   *)
(* Trend Template, its 200-day average not being above the one of 22       *)
(* sessions before, is no breakout and is no VCP.                          *)
(***************************************************************************)
Flat(d) ==
    \A i \in DOMAIN d :
        /\ d[i].open = d[1].close /\ d[i].high = d[1].close
        /\ d[i].low = d[1].close /\ d[i].close = d[1].close
        /\ d[i].volume = d[1].volume

C10_FlatSeriesFails ==
    (Len(data) = MaxLen /\ Flat(data)) =>
        /\ op = "checkTrendTemplate" =>
             /\ ~ret.passes
             /\ ret.criteriaCount < 7
             /\ ~RatLt(smaAt(data, 200, Len(data) - 1 - MA200_RISE_DAYS), sma(data, 200))
        /\ op = "checkBreakout" => ret = NoBreakout
        /\ op = "checkVcp" => ret = FALSE

C10_Witness ==
    /\ Len(data) = MaxLen
    /\ Flat(data)
    /\ data[1].close >= MIN_PRICE
    /\ data[1].volume > 0
    /\ op = "checkVcp"
    /\ ret = FALSE

(***************************************************************************)
(* C11.  Whenever checkBreakout reports a breakout, its grade is A if the  *)
(* close is at least 3% above the pivot high (the highest high of the 10   *)
(* bars before today) and today's volume at least 2.0 times the 50-day     *)
(* average volume; else B if at least 2% above and at least 1.5 times;     *)
(* else C.                                                                 *)
(***************************************************************************)
PivotHigh(d) == SetMax({ d[i].high : i \in (Len(d) - 10)..(Len(d) - 1) })

PercentAbove(d, pct) ==
    100 * (d[Len(d)].close - PivotHigh(d)) >= pct * PivotHigh(d)

VolumeRatio(d, tenths) ==
    10 * 50 * d[Len(d)].volume >= tenths * SumVolume(d, Len(d) - 49, Len(d))

C11_BreakoutGrade ==
    (op = "checkBreakout" /\ ret # NoBreakout) =>
        ret = IF PercentAbove(data, 3) /\ VolumeRatio(data, 20) THEN "A"
              ELSE IF PercentAbove(data, 2) /\ VolumeRatio(data, 15) THEN "B"
              ELSE "C"

C11_Witness ==
    /\ op = "checkBreakout"
    /\ ret = "B"
    /\ PercentAbove(data, 3)
    /\ ~VolumeRatio(data, 20)
    /\ VolumeRatio(data, 15)

(***************************************************************************)
(* C12.  Whenever the screener route returns a success response, it has    *)
(* called postProcessResults exactly once, after the loop has handled      *)
(* every symbol of the universe and before the sort, and every result of   *)
(* the response has a rank in 1..99 and the grade that its flags and rank  *)
(* give it.                                                                *)
(***************************************************************************)
CallsOf(call) == { i \in DOMAIN trace : trace[i].call = call }

C12_PhaseTwoAfterPhaseOne ==
    (op = "POST.returned" /\ ret.success) =>
        /\ Cardinality(CallsOf("postProcessResults")) = 1
        /\ \A i \in CallsOf("postProcessResults") :
             /\ { trace[j].symbol : j \in 1..(i - 1) } = 1..MaxUniverse
             /\ \A j \in CallsOf("runPipeline") \cup CallsOf("continue") : j < i
             /\ \A j \in CallsOf("sort") : i < j
        /\ \A k \in DOMAIN ret.results :
             /\ ret.results[k].rs \in 1..99
             /\ ret.results[k].grade = FirstMatch(GradeRules(ret.results[k]))

(***************************************************************************)
(* C13.  runPipeline, handed a series whose dates are not strictly         *)
(* ascending (a date out of order, or the same date twice), throws instead *)
(* of returning a result or null.                                          *)
(***************************************************************************)
AscendingDates(d) == \A i \in 1..(Len(d) - 1) : d[i].date < d[i + 1].date

C13_ContractViolationFailsLoudly ==
    (op = "runPipeline" /\ ~AscendingDates(data)) => ret = Thrown

(***************************************************************************)
(* C14.  A result that runPipeline returns has rs = 0, grade N/A and       *)
(* passesLiquidity = true; and in the screener route every result of the   *)
(* results array is still so for as long as the handler has not called     *)
(* postProcessResults on the array.                                        *)
(***************************************************************************)
Provisional(r) == r.rs = 0 /\ r.grade = "N/A" /\ r.passesLiquidity

C14_ProvisionalUntilPhaseTwo ==
    /\ (op = "runPipeline" /\ ret # NULL) => Provisional(ret)
    /\ (handler \in Handlers /\ CallsOf("postProcessResults") = {}) =>
         \A k \in DOMAIN results : Provisional(results[k])

C14_Witness ==
    /\ op = "POST.loop"
    /\ arg = MaxUniverse
    /\ Len(results) >= 2
    /\ \E k \in DOMAIN results : results[k].passesBreakout /\ Provisional(results[k])

(***************************************************************************)
(* C15.  runPipeline returns null for a series whose latest close is below *)
(* 10, or whose latest close times the average volume of its last 50 bars  *)
(* is below 20,000,000.  For a series of at least 200 bars that meets both *)
(* floors it returns null only where an indicator is missing or zero, not  *)
(* for its liquidity.  (50 times the dollar volume is compared, in units   *)
(* of VolUnit dollars.)                                                    *)
(***************************************************************************)
LatestClose(d) == d[Len(d)].close

DollarVolume50(d) == LatestClose(d) * SumVolume(d, Len(d) - 49, Len(d))

BelowFloors(d) ==
    \/ LatestClose(d) < 10
    \/ Len(d) >= 50 /\ DollarVolume50(d) < 50 * (20000000 \div VolUnit)

C15_LiquidityFloors ==
    op = "runPipeline" =>
        /\ BelowFloors(data) => ret = NULL
        /\ (Len(data) >= 200 /\ ~BelowFloors(data) /\ ret = NULL) =>
             SumTr(data, Len(data) - 13, Len(data)) = 0

C15_Witness ==
    /\ op = "runPipeline"
    /\ Len(data) >= 200
    /\ LatestClose(data) = 10
    /\ DollarVolume50(data) = 50 * (20000000 \div VolUnit)
    /\ ret # NULL

(***************************************************************************)
(* C16.  A request of the screener route that got past its fetches, and in *)
(* which runPipeline threw for a symbol or a symbol had no bars, still     *)
(* ends in a success response, for which the loop handled every symbol of  *)
(* the universe, calling runPipeline for each one that has bars, and       *)
(* postProcessResults was applied to the results collected, which are the  *)
(* results of the response.                                                *)
(***************************************************************************)
BadSymbols == { i \in DOMAIN trace : trace[i].outcome \in {"threw", "noData"} }

C16_BadSymbolDoesNotAbort ==
    (op = "POST.returned" /\ BadSymbols # {}) =>
        /\ ret.success
        /\ { trace[i].symbol : i \in CallsOf("runPipeline") \cup CallsOf("continue") }
             = 1..MaxUniverse
        /\ \A i \in BadSymbols : \A k \in (trace[i].symbol + 1)..MaxUniverse :
             \E j \in DOMAIN trace : j > i /\ trace[j].symbol = k
        /\ CallsOf("postProcessResults") # {}
        /\ Len(ret.results) = Cardinality({ i \in DOMAIN trace : trace[i].outcome = "result" })
        /\ \A k \in DOMAIN ret.results : ret.results[k].rs \in 1..99

(***************************************************************************)
(* C17.  After assignPercentileRanks on n results, the result at position  *)
(* i (counted from 0) of the ascending order by raw score has the rank     *)
(* round(((i + 1) / n) * 99), halves rounded upward, raised to 1 if below  *)
(* and lowered to 99 if above.                                             *)
(***************************************************************************)
RoundsTo(r, num, den) == 2 * den * r <= 2 * num + den /\ 2 * num + den < 2 * den * (r + 1)

(***************************************************************************)
(* The values of 0..100 that the clamp to 1..99 takes to the rank q.       *)
(***************************************************************************)
ClampedTo(q) == IF q = 1 THEN {0, 1} ELSE IF q = 99 THEN {99, 100} ELSE {q}

C18_TiesGetDifferentRanks ==
    Ranked =>
        \A a \in DOMAIN results : \A b \in (a + 1)..Len(results) :
            results[a].rawRs = results[b].rawRs => results[a].rs < results[b].rs

C18_TiesRankedByInputOrder ==
    Ranked =>
        \A a \in DOMAIN results : \A b \in (a + 1)..Len(results) :
            results[a].rawRs = results[b].rawRs =>
                /\ results[a].rs <= results[b].rs
                /\ Len(results) <= 99 => results[a].rs < results[b].rs

C18_Witness ==
    /\ op = "assignPercentileRanks"
    /\ Len(results) > 99
    /\ \E a, b \in DOMAIN results :
         /\ a < b
         /\ results[a].rawRs = results[b].rawRs
         /\ results[a].rs = results[b].rs
    /\ \E a, b \in DOMAIN results :
         /\ a < b
         /\ results[a].rawRs = results[b].rawRs
         /\ results[a].rs < results[b].rs

(***************************************************************************)
(* C19.  checkTrendTemplate on a series of at least 200 sessions returns   *)
(* as criteriaCount the number of the seven criteria that hold, each of    *)
(* them counted whether or not the others hold, and passes exactly when    *)
(* all seven hold; on a shorter series it returns passes = false and       *)
(* criteriaCount = 0.  The averages are compared as sums of closes: with   *)
(* S(k) the sum of the last k closes, price > MA150 is 150 price > S(150). *)
(* The 200-day average of 22 sessions ago exists from 222 sessions on.     *)
(***************************************************************************)
CloseSum(k) == SumClose(data, Len(data) - k + 1, Len(data))

CloseSumAgo(k, ago) == SumClose(data, Len(data) - ago - k + 1, Len(data) - ago)

YearLow == SetMin({ data[i].low : i \in DOMAIN data \cap ((Len(data) - 251)..Len(data)) })

YearHigh == SetMax({ data[i].high : i \in DOMAIN data \cap ((Len(data) - 251)..Len(data)) })

TemplateCriteria ==
    LET price == data[Len(data)].close
    IN  { c \in 1..7 :
            CASE c = 1 -> 150 * price > CloseSum(150) /\ 200 * price > CloseSum(200)
              [] c = 2 -> 200 * CloseSum(150) > 150 * CloseSum(200)
              [] c = 3 -> Len(data) >= 222 /\ CloseSum(200) > CloseSumAgo(200, 22)
              [] c = 4 -> /\ 150 * CloseSum(50) > 50 * CloseSum(150)
                          /\ 200 * CloseSum(50) > 50 * CloseSum(200)
              [] c = 5 -> 50 * price > CloseSum(50)
              [] c = 6 -> 100 * price >= 125 * YearLow
              [] c = 7 -> 100 * price >= 75 * YearHigh }

C19_TemplateCountsCriteria ==
    op = "checkTrendTemplate" =>
        IF Len(data) >= 200
        THEN /\ ret.criteriaCount = Cardinality(TemplateCriteria)
             /\ ret.passes = (TemplateCriteria = 1..7)
        ELSE ret = [passes |-> FALSE, criteriaCount |-> 0]

C19_Witness ==
    /\ op = "checkTrendTemplate"
    /\ Len(data) >= 222
    /\ TemplateCriteria = 1..7
    /\ ret.passes
    /\ ret.criteriaCount = 7

(***************************************************************************)
(* C20.  checkVcp returns true exactly when the series has at least 65     *)
(* sessions and the five gates hold: the 14-period ATR of the last 20      *)
(* sessions is below 75% of the 14-period ATR of the last 60 sessions; the *)
(* 5-day average volume is below 80% of the 50-day average volume; the     *)
(* range of the last 10 sessions is at most 8% of the price; the price is  *)
(* at least 85% of the 60-session high; the lowest low of the last 10      *)
(* sessions is above 1.02 times the 52-week low.  In a result of           *)
(* runPipeline passesVcp is set only if the seven criteria of the Trend    *)
(* Template hold.  The 14-period ATR of a window is the mean of the true   *)
(* ranges of its last 14 sessions; the averages are compared as sums.      *)
(***************************************************************************)
LastSessions(k) == { i \in DOMAIN data : i > Len(data) - k }

TrueRangeSum14(k) ==
    LET w == SubSeq(data, SetMin(LastSessions(k)), Len(data))
    IN  SumTr(w, Len(w) - 13, Len(w))

VolumeSum(k) == SumVolume(data, Len(data) - k + 1, Len(data))

HighestHigh(k) == SetMax({ data[i].high : i \in LastSessions(k) })

LowestLow(k) == SetMin({ data[i].low : i \in LastSessions(k) })

VcpContracting == 4 * TrueRangeSum14(20) < 3 * TrueRangeSum14(60)

VcpVolumeDryUp == 50 * VolumeSum(5) < 4 * VolumeSum(50)

VcpTightRange == 100 * (HighestHigh(10) - LowestLow(10)) <= 8 * data[Len(data)].close

VcpNearHigh == 100 * data[Len(data)].close >= 85 * HighestHigh(60)

VcpNoBreakdown == 100 * LowestLow(10) > 102 * LowestLow(252)

BaseRange20 ==
    LET before == (Len(data) - 20)..(Len(data) - 1)
    IN  SetMax({ data[i].high : i \in before }) - SetMin({ data[i].low : i \in before })

BreakoutQualifies ==
    /\ Len(data) >= BO_PIVOT_BARS + 5
    /\ Len(data) >= 50
    /\ data[Len(data)].close > PivotHigh(data)
    /\ VolumeRatio(data, 14)
    /\ 100 * BaseRange20 <= 25 * data[Len(data)].close

C21_BreakoutExactlyWhenQualified ==
    op = "checkBreakout" =>
        /\ ret \in {"A", "B", "C", NoBreakout}
        /\ NoBreakout # "C"
        /\ (ret # NoBreakout) <=> BreakoutQualifies

(***************************************************************************)
(* C22.  calculateRawRs counts a session of the series only if the         *)
(* benchmark has a bar of its date: its result is the one it gives for the *)
(* series without the other sessions.  With fewer than 60 such sessions,   *)
(* an empty benchmark included, it returns 0, and runPipeline returns what *)
(* it returns with any other benchmark, with rawRs = 0.                    *)
(***************************************************************************)
AlignedTo(bench) ==
    LET dates == { bench[j].date : j \in DOMAIN bench }
        InBenchmark(bar) == bar.date \in dates
    IN  SelectSeq(data, InBenchmark)

C22_FewAlignedSessionsGiveZero ==
    op \in {"calculateRawRs", "runPipeline"} =>
        LET aligned == AlignedTo(benchmarkData)
        IN  /\ op = "calculateRawRs" =>
                 /\ Len(aligned) < 60 => ret = 0
                 /\ Len(aligned) \in 60..(Len(data) - 1) =>
                      ret = calculateRawRs(aligned, benchmarkData)
            /\ (op = "runPipeline" /\ Len(aligned) < 60) =>
                 /\ ret = NULL <=> runPipeline(1, data, data) = NULL
                 /\ ret # NULL => ret.rawRs = 0

C22_Witness ==
    /\ op = "runPipeline"
    /\ Len(data) >= 200
    /\ Len(benchmarkData) >= 60
    /\ Len(AlignedTo(benchmarkData)) \in 1..59
    /\ ret # NULL
    /\ ret.rawRs = 0

(***************************************************************************)
(* C23.  With at least 60 aligned sessions calculateRawRs returns          *)
(* 0.4 Q1 + 0.2 Q2 + 0.2 Q3 + 0.2 Q4, where window k holds the aligned     *)
(* sessions from the 63 k-th last (or the first, if there are fewer) to    *)
(* the one before window k - 1, and Qk is the return of the series over    *)
(* the window, last close / first close - 1, less that of the benchmark,   *)
(* or 0 for a window without sessions.  Returns are in millionths, the     *)
(* score in fifths of a millionth.                                         *)
(***************************************************************************)
WindowReturn(first, last) == ((last - first) * 1000000) \div first

BenchmarkClose(date) ==
    benchmarkData[CHOOSE j \in DOMAIN benchmarkData : benchmarkData[j].date = date].close

Outperformance(aligned, k) ==
    LET from == MathMax(0, Len(aligned) - 63 * k) + 1
        to == MathMax(0, Len(aligned) - 63 * (k - 1))
    IN  IF from > to THEN 0
        ELSE WindowReturn(aligned[from].close, aligned[to].close)
             - WindowReturn(BenchmarkClose(aligned[from].date),
                            BenchmarkClose(aligned[to].date))

C23_WeightedQuarters ==
    op = "calculateRawRs" =>
        LET aligned == AlignedTo(benchmarkData)
        IN  Len(aligned) >= 60 =>
              ret = 2 * Outperformance(aligned, 1) + Outperformance(aligned, 2)
                    + Outperformance(aligned, 3) + Outperformance(aligned, 4)

C23_Witness ==
    /\ op = "calculateRawRs"
    /\ Len(AlignedTo(benchmarkData)) \in 190..251
    /\ Len(AlignedTo(benchmarkData)) < Len(data)
    /\ Outperformance(AlignedTo(benchmarkData), 4) # 0
    /\ ret # 0

(***************************************************************************)
(* C24.  On a series of at least period + 1 bars calcAtr returns the mean  *)
(* of the true ranges of the last period bars, the true range of a bar     *)
(* being the largest of high - low, |high - previous close| and            *)
(* |low - previous close| (the first bar taking its own close), and        *)
(* returns the same for the last period + 1 bars alone.                    *)
(***************************************************************************)
Largest(a, b, c) == SetMax({a, b, c})

TrueRangeOfBar(i) ==
    LET prevClose == IF i = 1 THEN data[i].close ELSE data[i - 1].close
    IN  Largest(data[i].high - data[i].low,
                Abs(data[i].high - prevClose),
                Abs(data[i].low - prevClose))

RECURSIVE TrueRangeTotal(_, _)
TrueRangeTotal(lo, hi) ==
    IF lo > hi THEN 0
    ELSE IF lo = hi THEN TrueRangeOfBar(lo)
    ELSE TrueRangeTotal(lo, (lo + hi) \div 2) + TrueRangeTotal((lo + hi) \div 2 + 1, hi)

C24_AtrIsMeanOfLastTrueRanges ==
    (op = "calcAtr" /\ Len(data) >= arg + 1) =>
        /\ ret # NULL
        /\ ret.n = TrueRangeTotal(Len(data) - arg + 1, Len(data))
        /\ ret.d = arg
        /\ ret = calcAtr(SubSeq(data, Len(data) - arg, Len(data)), arg)

C24_Witness ==
    /\ op = "calcAtr"
    /\ Len(data) > arg + 1
    /\ ret # NULL
    /\ TrueRangeOfBar(Len(data)) > data[Len(data)].high - data[Len(data)].low
    /\ ret.n > arg * (data[Len(data)].high - data[Len(data)].low)

(***************************************************************************)
(* C25.  postProcessResults leaves the list with the length and the order  *)
(* it had on entry, and changes nothing of a result but rs,                *)
(* passesTemplate, passesVcp and grade.                                    *)
(***************************************************************************)
Owned == {"rs", "passesTemplate", "passesVcp", "grade"}

C25_PostProcessFrame ==
    PostProcessed =>
        /\ Len(results) = Len(entry)
        /\ \A k \in DOMAIN results :
             /\ DOMAIN results[k] = DOMAIN entry[k]
             /\ \A f \in DOMAIN results[k] \ Owned : results[k][f] = entry[k][f]

C25_Witness ==
    /\ PostProcessed
    /\ \E a, b \in DOMAIN results : a < b /\ results[a].rawRs > results[b].rawRs
    /\ \E k \in DOMAIN results :
         /\ results[k].rs # entry[k].rs
         /\ results[k].passesTemplate # entry[k].passesTemplate
         /\ results[k].passesVcp # entry[k].passesVcp

(***************************************************************************)
(* C26.  checkVcp returns false on every series: the 14-period ATR of the  *)
(* last 20 bars and that of the last 60 bars are the same number, so the   *)
(* first is never below 75% of the second.  Hence no result of runPipeline *)
(* has passesVcp set, and no result of the screener route gets its grade   *)
(* by the rule for a template pass with a VCP.                             *)
(***************************************************************************)
MeanTrueRangeContracts ==
    59 * 4 * TrueRangeTotal(Len(data) - 18, Len(data))
        < 19 * 3 * TrueRangeTotal(Len(data) - 58, Len(data))

C26_VcpNeverPasses ==
    /\ op = "checkVcp" =>
         /\ ret = FALSE
         /\ Len(data) >= 65 =>
              calcAtr(SliceLast(data, 20), 14) = calcAtr(SliceLast(data, 60), 14)
    /\ (op = "runPipeline" /\ ret # NULL) => ~ret.passesVcp
    /\ handler # "none" =>
         \A k \in DOMAIN results :
            /\ ~results[k].passesVcp
            /\ results[k].grade = "B" => results[k].passesBreakout

C26_Witness ==
    /\ op = "checkVcp"
    /\ Len(data) >= 65
    /\ MeanTrueRangeContracts
    /\ VcpVolumeDryUp /\ VcpTightRange /\ VcpNearHigh /\ VcpNoBreakdown
    /\ ret = FALSE

(***************************************************************************)
(* C27.  After postProcessResults every result that passes the template    *)
(* has a rank of at least 70, and the grade of every result is A, B, C or  *)
(* N/A: the grade D is never assigned.                                     *)
(***************************************************************************)
C27_NoGradeD ==
    PostProcessed =>
        \A k \in DOMAIN results :
            /\ results[k].passesTemplate => results[k].rs >= 70
            /\ results[k].grade \in {"A", "B", "C", "N/A"}

C27_Witness ==
    /\ PostProcessed
    /\ \E k \in DOMAIN results :
         /\ entry[k].passesTemplate
         /\ entry[k].grade = "N/A"
         /\ results[k].rs \in 1..69
         /\ ~results[k].passesTemplate
         /\ results[k].grade = "N/A"

(***************************************************************************)
(* C28.  A series of fewer than 222 sessions does not pass the Trend       *)
(* Template: under 200 sessions nothing is counted, and from 200 to 221    *)
(* the 200-day average of 22 sessions ago is unavailable, so at most 6     *)
(* criteria are counted; a result runPipeline makes of such a series has   *)
(* passesTemplate = false.                                                 *)
(***************************************************************************)
C28_NoPassUnder222Sessions ==
    Len(data) < 222 =>
        /\ op = "checkTrendTemplate" =>
             /\ ~ret.passes
             /\ ret.criteriaCount <= 6
             /\ smaAt(data, 200, Len(data) - 1 - MA200_RISE_DAYS) = NULL
        /\ (op = "runPipeline" /\ ret # NULL) =>
             /\ ~ret.passesTemplate
             /\ ret.templateCriteria <= 6

C28_Witness ==
    /\ op = "checkTrendTemplate"
    /\ Len(data) \in 200..221
    /\ TemplateCriteria = (1..7) \ {3}
    /\ ret.criteriaCount = 6
    /\ ~ret.passes

(***************************************************************************)
(* C29.  In a ranked batch that is not empty the result that comes last in *)
(* the ascending order of raw scores (of those with the highest raw score, *)
(* the last in the list) has the rank 99.  The only result of a batch of   *)
(* one therefore keeps the template pass it came with.                     *)
(***************************************************************************)
LastInRawOrder ==
    CHOOSE k \in DOMAIN results :
        \A j \in DOMAIN results :
            \/ results[j].rawRs < results[k].rawRs
            \/ results[j].rawRs = results[k].rawRs /\ j <= k

C29_LastGetsRank99 ==
    (Ranked /\ Len(results) >= 1) =>
        /\ results[LastInRawOrder].rs = 99
        /\ (PostProcessed /\ Len(results) = 1) =>
             results[1].passesTemplate = entry[1].passesTemplate

C29_Witness ==
    /\ PostProcessed
    /\ Len(results) = 1
    /\ results[1].rawRs = 0
    /\ entry[1].passesTemplate /\ entry[1].rs = 0
    /\ results[1].rs = 99
    /\ results[1].passesTemplate

(***************************************************************************)
(* C30.  For a batch whose raw scores all differ, postProcessResults gives *)
(* every symbol the same rs, passesTemplate, passesVcp and grade whatever  *)
(* the order of the list: applied to any permutation of the list it had on *)
(* entry, it yields for each symbol what it yielded here.                  *)
(***************************************************************************)
DistinctRawRs(rs) ==
    \A a \in DOMAIN rs : \A b \in (a + 1)..Len(rs) : rs[a].rawRs # rs[b].rawRs

ListOrders(n) ==
    { p \in [1..n -> 1..n] : \A a \in 1..n : \A b \in (a + 1)..n : p[a] # p[b] }

Outcome(r) ==
    [symbol |-> r.symbol, rs |-> r.rs, passesTemplate |-> r.passesTemplate,
     passesVcp |-> r.passesVcp, grade |-> r.grade]

C30_OrderMattersOnlyForTies ==
    (PostProcessed /\ DistinctRawRs(entry)) =>
        \A p \in ListOrders(Len(entry)) :
            LET out == postProcessResults([k \in 1..Len(entry) |-> entry[p[k]]])
            IN  \A k \in 1..Len(entry) : Outcome(out[k]) = Outcome(results[p[k]])

C30_Witness ==
    /\ PostProcessed
    /\ Len(results) >= 3
    /\ DistinctRawRs(entry)
    /\ entry[1].rawRs > entry[2].rawRs
    /\ entry[1].rs = 0
    /\ results[1].rs = 99
    /\ \E k \in DOMAIN results : entry[k].passesTemplate /\ ~results[k].passesTemplate

=============================================================================
